---- MODULE Spec2Model ----
(***************************************************************************)
(* The widget tree of the streaming-catalog browser: RootWidget, its       *)
(* ContentSet rows and their Thumbnail cells (src/src/main.rs,             *)
(* src/src/root_widget.rs, src/src/content_set.rs).                        *)
(*                                                                         *)
(* One action is one pass of the single-threaded dispatcher: the root      *)
(* handler and every handler it forwards the event to.  Background         *)
(* computations, the command queue and the animation-frame requests are    *)
(* the only things that outlive a pass.                                    *)
(***************************************************************************)
EXTENDS Integers, Sequences, FiniteSets, TLC

\* ---------------------------------------------------------------- bounds
MaxRows == 2      \* longest record list load_collection delivers
MaxCols == 1      \* longest image list load_content_set delivers
MaxQueue == 2     \* cap on commands submitted and not yet delivered
MaxDup == 1       \* cap on repeated deliveries of a completion event (SpecDup)
MaxLoadRows == 3  \* longest record list load_collection delivers in SpecLoad
MaxLoadCols == 3  \* longest image list load_content_set delivers in SpecLoad
MaxCoord == 3     \* cap on each axis of selected_item in SpecNav

\* ------------------------------------------------------------- constants
MAX_PROGRESS == 5 \* the literal 5 of Thumbnail::on_event
EMPTY == 0        \* PromiseToken::empty()

Keys == {"ArrowDown", "ArrowLeft", "ArrowRight", "ArrowUp", "Other"}

\* The i-th record of the catalog and the j-th image of a row: distinct
\* values, so that a list's order shows in the tree built from it.
Metadata(i) == [title |-> i, ref_id |-> i]
Url(j) == j

\* What a background computation can deliver: a list, possibly empty, whose
\* order is the row order / column order.
CollectionPayloads == {[i \in 1..k |-> Metadata(i)] : k \in 0..MaxRows}
ContentSetPayloads == {[j \in 1..k |-> Url(j)] : k \in 0..MaxCols}

\* The same with the longer lists of SpecLoad.
LoadCollectionPayloads == {[i \in 1..k |-> Metadata(i)] : k \in 0..MaxLoadRows}
LoadContentSetPayloads == {[j \in 1..k |-> Url(j)] : k \in 0..MaxLoadCols}

\* ------------------------------------------------------------ identities
RootId == [kind |-> "RootWidget", row |-> 0, column |-> 0]
SetId(r) == [kind |-> "ContentSet", row |-> r, column |-> 0]
ThumbId(r, c) == [kind |-> "Thumbnail", row |-> r, column |-> c]

VARIABLES
  children_promise,  \* RootWidget.children_promise (EMPTY or a token)
  children,          \* the children of RootWidget's Flex column
  selected_item,     \* RootWidget.selected_item
  root_added,        \* RootWidget has received LifeCycle::WidgetAdded
  focus_chain_built, \* RootWidget has received LifeCycle::BuildFocusChain
  focus_requests,    \* number of ctx.request_focus() calls so far
  commands,          \* commands submitted and not yet delivered (FIFO)
  running,           \* background computations launched and not finished
  delivered,         \* completion events already delivered: token -> payload
  next_token,        \* next fresh PromiseToken
  dups,              \* repeated deliveries so far
  pass               \* the last pass: its event, the widgets whose handler
                     \* ran and the requests they made on their context

vars == <<children_promise, children, selected_item, root_added,
          focus_chain_built, focus_requests, commands, running, delivered,
          next_token, dups, pass>>

\* ------------------------------------------------------- widget builders
Spinner == [kind |-> "Spinner"]

Label(text) == [kind |-> "Label", text |-> text]

ClipBox(child) == [kind |-> "ClipBox", child |-> child]

\* Variant of ThumbnailNew: the thumbnail is born selected.
ThumbnailNewSelected(row, column, thumbnail_url) ==
  [kind |-> "Thumbnail", row |-> row, column |-> column,
   inner |-> thumbnail_url, selected |-> TRUE, selected_progress |-> 0,
   request_anim |-> FALSE]

\* Thumbnail::new: unselected, progress 0.  request_anim is the widget's
\* outstanding request_anim_frame().
ThumbnailNew(row, column, thumbnail_url) ==
  [kind |-> "Thumbnail", row |-> row, column |-> column,
   inner |-> thumbnail_url, selected |-> FALSE, selected_progress |-> 0,
   request_anim |-> FALSE]

\* ContentSet::new: empty slot, title label plus spinner.  added records
\* that the widget has received LifeCycle::WidgetAdded.
ContentSetNew(row, data) ==
  [kind |-> "ContentSet", row |-> row, data |-> data,
   children_promise |-> EMPTY,
   children |-> <<Label(data.title), Spinner>>,
   added |-> FALSE]

\* RootWidget::new: the Flex column holds one Spinner.
RootPlaceholder == <<Spinner>>

\* ------------------------------------------------------------- dispatch
\* What a handler hands back to the dispatcher: the widget after the event,
\* the widgets whose handler ran, and the requests made on their contexts.
Requests(node, names) == {[node |-> node, request |-> q] : q \in names}

\* Whether a WidgetPod passes the event on to the widget it holds.  A
\* command addressed to one widget reaches only that widget, a key event
\* only the widget holding the focus, an animation frame only the widgets
\* that asked for one.
PodDeliversThumbnail(t, event) ==
  CASE event.type = "AnimFrame" -> t.request_anim
    [] event.type = "Command" -> event.target = "Window"
    [] event.type = "KeyDown" -> FALSE
    [] OTHER -> TRUE

\* command.try_get(CHANGE_SELECTED_ITEM)
IsChangeSelectedItem(event) == event.selector = "CHANGE_SELECTED_ITEM"

\* (*row, *col) == (self.row, self.column)
CoordinateMatches(t, payload) == payload = <<t.row, t.column>>

\* Variant of ThumbnailOnCommand: the branch that deselects is missing.
ThumbnailOnCommandKeepsSelected(t, event) ==
  IF IsChangeSelectedItem(event) /\ CoordinateMatches(t, event.payload)
  THEN [w |-> [t EXCEPT !.selected = TRUE, !.request_anim = TRUE],
        requests |-> {"anim_frame", "layout", "pan_to_this"}]
  ELSE [w |-> t, requests |-> {}]

\* Variant of ThumbnailOnCommand: deselecting requests no animation frame.
ThumbnailOnCommandSilentDeselect(t, event) ==
  IF IsChangeSelectedItem(event)
  THEN IF CoordinateMatches(t, event.payload)
       THEN [w |-> [t EXCEPT !.selected = TRUE, !.request_anim = TRUE],
             requests |-> {"anim_frame", "layout", "pan_to_this"}]
       ELSE IF t.selected
            THEN [w |-> [t EXCEPT !.selected = FALSE],
                  requests |-> {"layout"}]
            ELSE [w |-> t, requests |-> {}]
  ELSE [w |-> t, requests |-> {}]

\* Variant of ThumbnailOnCommand: deselecting drops progress to 0 at once.
ThumbnailOnCommandResetsProgress(t, event) ==
  IF IsChangeSelectedItem(event)
  THEN IF CoordinateMatches(t, event.payload)
       THEN [w |-> [t EXCEPT !.selected = TRUE, !.request_anim = TRUE],
             requests |-> {"anim_frame", "layout", "pan_to_this"}]
       ELSE IF t.selected
            THEN [w |-> [t EXCEPT !.selected = FALSE, !.request_anim = TRUE,
                                  !.selected_progress = 0],
                  requests |-> {"anim_frame", "layout"}]
            ELSE [w |-> t, requests |-> {}]
  ELSE [w |-> t, requests |-> {}]

\* Thumbnail::on_event, the Event::Command arm.
ThumbnailOnCommand(t, event) ==
  IF IsChangeSelectedItem(event)
  THEN IF CoordinateMatches(t, event.payload)
       THEN [w |-> [t EXCEPT !.selected = TRUE, !.request_anim = TRUE],
             requests |-> {"anim_frame", "layout", "pan_to_this"}]
       ELSE IF t.selected
            THEN [w |-> [t EXCEPT !.selected = FALSE, !.request_anim = TRUE],
                  requests |-> {"anim_frame", "layout"}]
            ELSE [w |-> t, requests |-> {}]
  ELSE [w |-> t, requests |-> {}]

\* Variant of ThumbnailOnAnimFrame: another tick is requested only while
\* progress is short of the bound after the step.
ThumbnailOnAnimFrameStopsAtBound(t) ==
  LET p == IF t.selected
           THEN IF t.selected_progress < MAX_PROGRESS
                THEN t.selected_progress + 1 ELSE t.selected_progress
           ELSE IF t.selected_progress > 0
                THEN t.selected_progress - 1 ELSE t.selected_progress
      more == p # (IF t.selected THEN MAX_PROGRESS ELSE 0)
  IN [w |-> [t EXCEPT !.selected_progress = p,
                      !.request_anim = (t.request_anim \/ more)],
      requests |-> IF more THEN {"anim_frame", "layout"} ELSE {}]

\* Variant of ThumbnailOnAnimFrame: a deselected thumbnail drops to 0 in
\* one tick.
ThumbnailOnAnimFrameSnaps(t) ==
  IF t.selected
  THEN IF t.selected_progress < MAX_PROGRESS
       THEN [w |-> [t EXCEPT !.selected_progress = @ + 1,
                             !.request_anim = TRUE],
             requests |-> {"anim_frame", "layout"}]
       ELSE [w |-> t, requests |-> {}]
  ELSE IF t.selected_progress > 0
       THEN [w |-> [t EXCEPT !.selected_progress = 0,
                             !.request_anim = TRUE],
             requests |-> {"anim_frame", "layout"}]
       ELSE [w |-> t, requests |-> {}]

\* Variant of ThumbnailOnAnimFrame: progress is not tested against its
\* bounds.
ThumbnailOnAnimFrameUnbounded(t) ==
  [w |-> [t EXCEPT !.selected_progress = IF t.selected THEN @ + 1 ELSE @ - 1,
                   !.request_anim = TRUE],
   requests |-> {"anim_frame", "layout"}]

\* Variant of ThumbnailOnAnimFrame: a tick at the bound asks for another.
ThumbnailOnAnimFramePerpetual(t) ==
  IF t.selected
  THEN [w |-> [t EXCEPT !.selected_progress =
                          IF @ < MAX_PROGRESS THEN @ + 1 ELSE @,
                        !.request_anim = TRUE],
        requests |-> {"anim_frame", "layout"}]
  ELSE [w |-> [t EXCEPT !.selected_progress = IF @ > 0 THEN @ - 1 ELSE @,
                        !.request_anim = TRUE],
        requests |-> {"anim_frame", "layout"}]

\* Thumbnail::on_event, the Event::AnimFrame arm.
ThumbnailOnAnimFrame(t) ==
  IF t.selected
  THEN IF t.selected_progress < MAX_PROGRESS
       THEN [w |-> [t EXCEPT !.selected_progress = @ + 1,
                             !.request_anim = TRUE],
             requests |-> {"anim_frame", "layout"}]
       ELSE [w |-> t, requests |-> {}]
  ELSE IF t.selected_progress > 0
       THEN [w |-> [t EXCEPT !.selected_progress = @ - 1,
                             !.request_anim = TRUE],
             requests |-> {"anim_frame", "layout"}]
       ELSE [w |-> t, requests |-> {}]

\* Thumbnail::on_event.  The frame a widget asked for is consumed when the
\* frame is delivered to it.
ThumbnailOnEvent(t, event) ==
  CASE event.type = "Command" -> ThumbnailOnCommand(t, event)
    [] event.type = "AnimFrame" ->
         ThumbnailOnAnimFrame([t EXCEPT !.request_anim = FALSE])
    [] OTHER -> [w |-> t, requests |-> {}]

\* The Flex row of thumbnails inside a ContentSet's ClipBox.
StripOnEvent(strip, event) ==
  LET got == {j \in 1..Len(strip) : PodDeliversThumbnail(strip[j], event)}
      out(j) == IF j \in got
                THEN ThumbnailOnEvent(strip[j], event)
                ELSE [w |-> strip[j], requests |-> {}]
  IN [w |-> [j \in 1..Len(strip) |-> out(j).w],
      received |-> {ThumbId(strip[j].row, strip[j].column) : j \in got},
      requests |-> UNION {Requests(ThumbId(strip[j].row, strip[j].column),
                                   out(j).requests) : j \in got}]

\* result.try_get(self.children_promise): the event's tag is the slot's
\* token.  taken: the payload of this event was moved out by an earlier
\* delivery.
TryGet(event, promise) ==
  promise # EMPTY /\ event.token = promise /\ ~event.taken

\* Variant of FlexClear: the old children stay.
FlexKeep(flex) == flex

\* flex.clear(flex_state)
FlexClear(flex) == <<>>

\* Variant of ContentSetRebuild: columns are numbered from 1.
ContentSetRebuildOneBased(cs, payload) ==
  FlexClear(cs.children)
    \o <<Label(cs.data.title),
         ClipBox([j \in 1..Len(payload) |->
                    ThumbnailNew(cs.row, j, payload[j])])>>

\* The closure ContentSet::on_event runs on its Flex column.
ContentSetRebuild(cs, payload) ==
  FlexClear(cs.children)
    \o <<Label(cs.data.title),
         ClipBox([j \in 1..Len(payload) |->
                    ThumbnailNew(cs.row, j - 1, payload[j])])>>

\* self.children.on_event(ctx, event, env) of a ContentSet.
ContentSetForward(cs, event) ==
  LET idx == 1..Len(cs.children)
      isBox(i) == cs.children[i].kind = "ClipBox"
      out(i) == IF isBox(i)
                THEN StripOnEvent(cs.children[i].child, event)
                ELSE [w |-> <<>>, received |-> {}, requests |-> {}]
  IN [w |-> [cs EXCEPT !.children =
               [i \in idx |-> IF isBox(i) THEN ClipBox(out(i).w)
                              ELSE cs.children[i]]],
      received |-> UNION {out(i).received : i \in idx},
      requests |-> UNION {out(i).requests : i \in idx}]

\* Variant of ContentSetMatches: the tag is not compared with the slot.
ContentSetMatchesAny(cs, event) ==
  event.type = "PromiseResult" /\ cs.children_promise # EMPTY

\* Whether the ContentSet's completion arm takes the event.
ContentSetMatches(cs, event) ==
  event.type = "PromiseResult" /\ TryGet(event, cs.children_promise)

\* Variant of ContentSetOnEvent: no skip_child and no return after the
\* replacement, so the event goes on into the new children.
ContentSetOnEventNoSkip(cs, event) ==
  LET own == ContentSetMatches(cs, event)
      now == IF own
             THEN [cs EXCEPT !.children = ContentSetRebuild(cs, event.payload)]
             ELSE cs
      fw == ContentSetForward(now, event)
  IN [w |-> fw.w,
      received |-> {SetId(cs.row)} \cup fw.received,
      requests |-> fw.requests]

\* Variant of ContentSetOnEvent: a completion event of another slot is not
\* forwarded to the children.
ContentSetOnEventSwallows(cs, event) ==
  IF ContentSetMatches(cs, event)
  THEN [w |-> [cs EXCEPT !.children = ContentSetRebuild(cs, event.payload)],
        received |-> {SetId(cs.row)},
        requests |-> {}]
  ELSE LET fw == ContentSetForward(cs, event)
       IN IF event.type = "PromiseResult"
          THEN [w |-> cs, received |-> {SetId(cs.row)}, requests |-> {}]
          ELSE [w |-> fw.w,
                received |-> {SetId(cs.row)} \cup fw.received,
                requests |-> fw.requests]

\* ContentSet::on_event.
ContentSetOnEvent(cs, event) ==
  IF ContentSetMatches(cs, event)
  THEN \* ctx.skip_child(&mut self.children); return;
       [w |-> [cs EXCEPT !.children = ContentSetRebuild(cs, event.payload)],
        received |-> {SetId(cs.row)},
        requests |-> {}]
  ELSE LET fw == ContentSetForward(cs, event)
       IN [w |-> fw.w,
           received |-> {SetId(cs.row)} \cup fw.received,
           requests |-> fw.requests]

\* The thumbnails of a ContentSet, in column order (none while it shows
\* its placeholder).
ThumbnailsOf(cs) ==
  LET boxes == {i \in 1..Len(cs.children) : cs.children[i].kind = "ClipBox"}
  IN UNION {{cs.children[i].child[j] : j \in 1..Len(cs.children[i].child)}
            : i \in boxes}

PodDeliversContentSet(cs, event) ==
  CASE event.type = "AnimFrame" -> \E t \in ThumbnailsOf(cs) : t.request_anim
    [] event.type = "Command" -> event.target = "Window"
    [] event.type = "KeyDown" -> FALSE
    [] OTHER -> TRUE

\* self.children.on_event(ctx, event, env) of RootWidget.
RootForward(event) ==
  LET idx == 1..Len(children)
      got == {i \in idx : /\ children[i].kind = "ContentSet"
                          /\ PodDeliversContentSet(children[i], event)}
      out(i) == IF i \in got
                THEN ContentSetOnEvent(children[i], event)
                ELSE [w |-> children[i], received |-> {}, requests |-> {}]
  IN [w |-> [i \in idx |-> out(i).w],
      received |-> UNION {out(i).received : i \in idx},
      requests |-> UNION {out(i).requests : i \in idx}]

\* Variant of RootRebuild: rows are numbered from 1.
RootRebuildOneBased(payload) ==
  FlexClear(children)
    \o [i \in 1..Len(payload) |-> ContentSetNew(i, payload[i])]

\* The closure RootWidget::on_event runs on its Flex column.
RootRebuild(payload) ==
  FlexClear(children)
    \o [i \in 1..Len(payload) |-> ContentSetNew(i - 1, payload[i])]

\* --------------------------------------------------------------- actions
Init ==
  /\ children_promise = EMPTY
  /\ children = RootPlaceholder
  /\ selected_item = <<0, 0>>
  /\ root_added = FALSE
  /\ focus_chain_built = FALSE
  /\ focus_requests = 0
  /\ commands = <<>>
  /\ running = {}
  /\ delivered = <<>>
  /\ next_token = 1
  /\ dups = 0
  /\ pass = [event |-> [type |-> "None"], received |-> {}, requests |-> {}]

\* Variant of RootLaunchesOn: the computation is launched on every
\* lifecycle event.
RootLaunchesOnAny(event) == TRUE

\* The lifecycle events in which RootWidget::lifecycle launches its
\* background computation.
RootLaunchesOn(event) == event = "WidgetAdded"

\* RootWidget::lifecycle.  WidgetAdded reaches a widget once, when it joins
\* the tree; BuildFocusChain when the focus chain is first built.
RootLifeCycle(event) ==
  /\ event = "WidgetAdded" => ~root_added
  /\ event = "BuildFocusChain" =>
       root_added /\ ~focus_chain_built /\ Len(commands) < MaxQueue
  /\ root_added' = (root_added \/ event = "WidgetAdded")
  /\ focus_chain_built' = (focus_chain_built \/ event = "BuildFocusChain")
  /\ commands' =
       IF event = "BuildFocusChain"
       THEN Append(commands, [selector |-> "REQUEST_FOCUS", payload |-> <<>>,
                              target |-> "Widget"])
       ELSE commands
  /\ IF RootLaunchesOn(event)
     THEN /\ children_promise' = next_token
          /\ running' = running \cup {[token |-> next_token, owner |-> RootId]}
          /\ next_token' = next_token + 1
     ELSE UNCHANGED <<children_promise, running, next_token>>
  /\ pass' = [event |-> [type |-> "LifeCycle", event |-> event],
              received |-> {RootId},
              requests |->
                Requests(RootId,
                  (IF event = "BuildFocusChain"
                   THEN {"register_for_focus", "submit_command"} ELSE {})
                  \cup (IF RootLaunchesOn(event)
                        THEN {"compute_in_background"} ELSE {}))]
  /\ UNCHANGED <<children, selected_item, focus_requests, delivered, dups>>

\* The ContentSets that have joined the tree and not yet been told so.
NewSets == {i \in 1..Len(children) : /\ children[i].kind = "ContentSet"
                                     /\ ~children[i].added}

\* Variant of ContentSetLifeCycle: the token of the launched computation is
\* not stored in the slot.
ContentSetLifeCycleDropsToken(cs, token) == [cs EXCEPT !.added = TRUE]

\* ContentSet::lifecycle on WidgetAdded: launch the row's computation.
ContentSetLifeCycle(cs, token) ==
  [cs EXCEPT !.children_promise = token, !.added = TRUE]

\* The pass that tells every newly attached ContentSet that it was added.
\* (RootWidget sees it as an internal routing event, not as WidgetAdded.)
ChildrenWidgetAdded ==
  /\ NewSets # {}
  /\ LET tok(i) == next_token + Cardinality({j \in NewSets : j < i})
     IN /\ children' = [i \in 1..Len(children) |->
                          IF i \in NewSets
                          THEN ContentSetLifeCycle(children[i], tok(i))
                          ELSE children[i]]
        /\ running' = running \cup
             {[token |-> tok(i), owner |-> SetId(children[i].row)]
                : i \in NewSets}
        /\ next_token' = next_token + Cardinality(NewSets)
        /\ pass' = [event |-> [type |-> "LifeCycle", event |-> "WidgetAdded"],
                    received |-> {SetId(children[i].row) : i \in NewSets},
                    requests |-> UNION {Requests(SetId(children[i].row),
                                                 {"compute_in_background"})
                                        : i \in NewSets}]
  /\ UNCHANGED <<children_promise, selected_item, root_added,
                 focus_chain_built, focus_requests, commands, delivered, dups>>

\* usize::saturating_add(1); the cap on the axis keeps it below usize::MAX.
SaturatingAdd(x) == x + 1

\* Variant of SaturatingSub: plain subtraction.
WrappingSub(x) == x - 1

\* usize::saturating_sub(1)
SaturatingSub(x) == IF x = 0 THEN 0 ELSE x - 1

\* Variant of MoveSelection: the axes of the horizontal keys are swapped.
MoveSelectionSwapped(item, key) ==
  CASE key = "ArrowDown" -> <<SaturatingAdd(item[1]), item[2]>>
    [] key = "ArrowLeft" -> <<SaturatingSub(item[1]), item[2]>>
    [] key = "ArrowRight" -> <<SaturatingAdd(item[1]), item[2]>>
    [] key = "ArrowUp" -> <<SaturatingSub(item[1]), item[2]>>
    [] OTHER -> item

\* The match on key_event.key in RootWidget::on_event.
MoveSelection(item, key) ==
  CASE key = "ArrowDown" -> <<SaturatingAdd(item[1]), item[2]>>
    [] key = "ArrowLeft" -> <<item[1], SaturatingSub(item[2])>>
    [] key = "ArrowRight" -> <<item[1], SaturatingAdd(item[2])>>
    [] key = "ArrowUp" -> <<SaturatingSub(item[1]), item[2]>>
    [] OTHER -> item

\* Variant of ChangeSelectedItem: the coordinate is read before the update.
ChangeSelectedItemStale(old, new) ==
  [selector |-> "CHANGE_SELECTED_ITEM", payload |-> old, target |-> "Window"]

\* CHANGE_SELECTED_ITEM.with(self.selected_item), read after the update.
ChangeSelectedItem(old, new) ==
  [selector |-> "CHANGE_SELECTED_ITEM", payload |-> new, target |-> "Window"]

\* Variant of KeyDownWithin: only the four arrow keys submit the broadcast.
KeyDownWithinArrowsOnly(key, maxRow, maxColumn) ==
  /\ focus_requests > 0
  /\ Len(commands) < MaxQueue
  /\ key = "ArrowDown" => selected_item[1] < maxRow
  /\ key = "ArrowRight" => selected_item[2] < maxColumn
  /\ LET event == [type |-> "KeyDown", key |-> key]
         fw == RootForward(event)
         arrow == key # "Other"
     IN /\ selected_item' = MoveSelection(selected_item, key)
        /\ commands' =
             IF arrow
             THEN Append(commands,
                         ChangeSelectedItem(selected_item, selected_item'))
             ELSE commands
        /\ children' = fw.w
        /\ pass' = [event |-> event,
                    received |-> {RootId} \cup fw.received,
                    requests |-> (IF arrow
                                  THEN Requests(RootId, {"submit_command"})
                                  ELSE {}) \cup fw.requests]
  /\ UNCHANGED <<children_promise, root_added, focus_chain_built,
                 focus_requests, running, delivered, next_token, dups>>

\* RootWidget::on_event, Event::KeyDown, while the coordinate stays within
\* the given caps.
KeyDownWithin(key, maxRow, maxColumn) ==
  /\ focus_requests > 0
  /\ Len(commands) < MaxQueue
  /\ key = "ArrowDown" => selected_item[1] < maxRow
  /\ key = "ArrowRight" => selected_item[2] < maxColumn
  /\ LET event == [type |-> "KeyDown", key |-> key]
         fw == RootForward(event)
     IN /\ selected_item' = MoveSelection(selected_item, key)
        /\ commands' = Append(commands,
                              ChangeSelectedItem(selected_item, selected_item'))
        /\ children' = fw.w
        /\ pass' = [event |-> event,
                    received |-> {RootId} \cup fw.received,
                    requests |-> Requests(RootId, {"submit_command"})
                                   \cup fw.requests]
  /\ UNCHANGED <<children_promise, root_added, focus_chain_built,
                 focus_requests, running, delivered, next_token, dups>>

\* RootWidget::on_event, Event::KeyDown.
KeyDown(key) == KeyDownWithin(key, MaxRows, MaxCols)

\* KeyDown with the wider coordinate range of SpecNav.
NavKeyDown(key) == KeyDownWithin(key, MaxCoord, MaxCoord)

\* Variant of IsRequestFocus: every command is taken for REQUEST_FOCUS.
IsRequestFocusAny(command) == TRUE

\* command.is(REQUEST_FOCUS)
IsRequestFocus(command) == command.selector = "REQUEST_FOCUS"

\* Variant of Dequeue: the newest command is taken first.
DequeueNewest(queue) ==
  [command |-> queue[Len(queue)], rest |-> SubSeq(queue, 1, Len(queue) - 1)]

\* The command the framework delivers next, and what stays queued:
\* commands are delivered in the order of their submission.
Dequeue(queue) == [command |-> Head(queue), rest |-> Tail(queue)]

\* RootWidget::on_event, Event::Command: the oldest submitted command is
\* dispatched to the tree.
DeliverCommand ==
  /\ commands # <<>>
  /\ LET command == Dequeue(commands).command
         event == [type |-> "Command", selector |-> command.selector,
                   payload |-> command.payload, target |-> command.target]
         focus == IsRequestFocus(command)
         fw == RootForward(event)
     IN /\ commands' = Dequeue(commands).rest
        /\ focus_requests' = IF focus THEN focus_requests + 1
                             ELSE focus_requests
        /\ children' = fw.w
        /\ pass' = [event |-> event,
                    received |-> {RootId} \cup fw.received,
                    requests |-> (IF focus
                                  THEN Requests(RootId, {"request_focus"})
                                  ELSE {}) \cup fw.requests]
  /\ UNCHANGED <<children_promise, selected_item, root_added,
                 focus_chain_built, running, delivered, next_token, dups>>

\* Whether RootWidget's completion arm takes the event.
RootMatches(event) == TryGet(event, children_promise)

\* RootWidget::on_event, Event::PromiseResult.
RootOnPromiseResult(event) ==
  IF RootMatches(event)
  THEN \* ctx.skip_child(&mut self.children); return;
       /\ children' = RootRebuild(event.payload)
       /\ pass' = [event |-> event, received |-> {RootId}, requests |-> {}]
  ELSE LET fw == RootForward(event)
       IN /\ children' = fw.w
          /\ pass' = [event |-> event,
                      received |-> {RootId} \cup fw.received,
                      requests |-> fw.requests]

PayloadsFor(owner) ==
  IF owner.kind = "RootWidget" THEN CollectionPayloads ELSE ContentSetPayloads

\* The computation c finishes with the given payload and its completion
\* event is dispatched to the tree.
Complete(c, payload) ==
  /\ RootOnPromiseResult([type |-> "PromiseResult", token |-> c.token,
                          payload |-> payload, taken |-> FALSE])
  /\ running' = running \ {c}
  /\ delivered' = delivered @@ (c.token :> payload)
  /\ UNCHANGED <<children_promise, selected_item, root_added,
                 focus_chain_built, focus_requests, commands, next_token, dups>>

\* A background computation finishes and its completion event is
\* dispatched to the tree.
PromiseResult ==
  \E c \in running : \E payload \in PayloadsFor(c.owner) : Complete(c, payload)

LoadPayloadsFor(owner) ==
  IF owner.kind = "RootWidget" THEN LoadCollectionPayloads
  ELSE LoadContentSetPayloads

\* PromiseResult with the longer lists of SpecLoad.
PromiseResultLoad ==
  \E c \in running : \E payload \in LoadPayloadsFor(c.owner) :
    Complete(c, payload)

\* A completion event that was already delivered is delivered once more.
RedeliverPromiseResult ==
  /\ dups < MaxDup
  /\ \E token \in DOMAIN delivered : \E taken \in BOOLEAN :
       RootOnPromiseResult([type |-> "PromiseResult", token |-> token,
                            payload |-> delivered[token], taken |-> taken])
  /\ dups' = dups + 1
  /\ UNCHANGED <<children_promise, selected_item, root_added,
                 focus_chain_built, focus_requests, commands, running,
                 delivered, next_token>>

\* Event::AnimFrame: one animation frame is dispatched to the widgets that
\* asked for it.
AnimFrame ==
  /\ root_added
  /\ LET event == [type |-> "AnimFrame"]
         fw == RootForward(event)
     IN /\ fw.received # {}
        /\ children' = fw.w
        /\ pass' = [event |-> event,
                    received |-> {RootId} \cup fw.received,
                    requests |-> fw.requests]
  /\ UNCHANGED <<children_promise, selected_item, root_added,
                 focus_chain_built, focus_requests, commands, running,
                 delivered, next_token, dups>>

\* Every pass but the animation frame.
TreeNext ==
  \/ \E event \in {"WidgetAdded", "BuildFocusChain"} : RootLifeCycle(event)
  \/ ChildrenWidgetAdded
  \/ \E key \in Keys : KeyDown(key)
  \/ DeliverCommand
  \/ PromiseResult

Next == TreeNext \/ AnimFrame

\* The program: each background computation delivers one completion event.
Spec == Init /\ [][Next]_vars

NextDup == TreeNext \/ RedeliverPromiseResult

\* The program with a framework that delivers every animation frame a
\* widget has requested.
SpecAnimFair == Spec /\ WF_vars(AnimFrame)

\* The program with completion events that may be delivered twice; no
\* animation frame is dispatched.
SpecDup == Init /\ [][NextDup]_vars

\* The tree while it loads, with longer lists: no key is pressed and no
\* animation frame is dispatched.
LoadNext ==
  \/ \E event \in {"WidgetAdded", "BuildFocusChain"} : RootLifeCycle(event)
  \/ ChildrenWidgetAdded
  \/ DeliverCommand
  \/ PromiseResultLoad

SpecLoad == Init /\ [][LoadNext]_vars

\* The loading tree with a framework that keeps its promises: a widget that
\* joined the tree is told so, and a running computation finishes and has
\* its completion event dispatched.
SpecLoadFair ==
  /\ SpecLoad
  /\ WF_vars(RootLifeCycle("WidgetAdded"))
  /\ WF_vars(ChildrenWidgetAdded)
  /\ WF_vars(PromiseResultLoad)

\* Navigation while the catalog is still loading: the root's computation
\* does not finish, and the coordinate may go up to MaxCoord on each axis.
NavNext ==
  \/ \E event \in {"WidgetAdded", "BuildFocusChain"} : RootLifeCycle(event)
  \/ \E key \in Keys : NavKeyDown(key)
  \/ DeliverCommand

SpecNav == Init /\ [][NavNext]_vars

\* ------------------------------------------------------------ vocabulary
SetIndices == {i \in 1..Len(children) : children[i].kind = "ContentSet"}

AllThumbnails == UNION {ThumbnailsOf(children[i]) : i \in SetIndices}

Coord(t) == <<t.row, t.column>>

SelectedThumbnails == {t \in AllThumbnails : t.selected}

\* The distance of progress from the bound matching the selected flag.
Dist(t) == IF t.selected THEN MAX_PROGRESS - t.selected_progress
           ELSE t.selected_progress

RunningTokens == {c.token : c \in running}

IsPlaceholder(cs) == cs.children = <<Label(cs.data.title), Spinner>>

IsBroadcast(command) == command.selector = "CHANGE_SELECTED_ITEM"

BroadcastPending ==
  \E k \in 1..Len(commands) : IsBroadcast(commands[k])

\* The step is the dispatch of a key event with the given key.
KeyPass(key) == pass'.event.type = "KeyDown" /\ pass'.event.key = key

\* The step is the dispatch of a completion event.
CompletionPass == pass'.event.type = "PromiseResult"

\* The requests the thumbnail at a coordinate made in the last pass.
RequestsOf(t) ==
  {q.request : q \in {x \in pass.requests : x.node = ThumbId(t.row, t.column)}}

\* ----------------------------------------------------------------- claims

\* C1: in every reachable state at most one Thumbnail of the tree has
\* selected = true.
C1_AtMostOneSelected == Cardinality(SelectedThumbnails) <= 1

\* The selection has moved from one existing thumbnail to another.
C1_Witness ==
  \E t \in AllThumbnails : \E u \in AllThumbnails :
    t.selected /\ ~u.selected /\ u.selected_progress > 0

\* The state right after a broadcast pass: the selected thumbnails are
\* exactly the thumbnails at selected_item (one if it exists, none if not).
SelectionSettled ==
  /\ SelectedThumbnails = {t \in AllThumbnails : Coord(t) = selected_item}
  /\ Cardinality(SelectedThumbnails) <= 1

\* C2: once the selection-changed broadcast has been delivered to the whole
\* tree (none is left pending), the Thumbnail at selected_item, if there is
\* one, is the only selected Thumbnail, and if there is none (coordinate out
\* of range) no Thumbnail is selected.
C2_SelectedIsSelectedItem ==
  [][(DeliverCommand /\ IsBroadcast(Head(commands)) /\ ~BroadcastPending')
       => SelectionSettled']_vars

\* A broadcast has just been delivered, none is pending, and of two
\* existing thumbnails the one at selected_item is selected.
C2_Witness ==
  /\ pass.event.type = "Command"
  /\ ~BroadcastPending
  /\ Cardinality(AllThumbnails) >= 2
  /\ \E t \in AllThumbnails : t.selected /\ Coord(t) = selected_item
  /\ selected_item # <<0, 0>>

\* C3: a selection-changed broadcast that leaves a Thumbnail's selected flag
\* as it was makes that Thumbnail request nothing (no animation tick, no
\* re-layout); in particular a selected Thumbnail that receives its own
\* coordinate again requests nothing.
C3_NoChangeNoRequest ==
  [][(DeliverCommand /\ IsBroadcast(Head(commands)))
       => \A t \in AllThumbnails : \A u \in AllThumbnails' :
            (Coord(u) = Coord(t) /\ u.selected = t.selected)
              => RequestsOf(u)' = {}]_vars

\* C4 as stated: after a tick the Thumbnail has a tick request outstanding
\* if and only if its progress is not at the bound of its selected flag.
C4_RequestsIffNotAtBoundAfter ==
  [][AnimFrame
       => \A u \in AllThumbnails' :
            ThumbId(u.row, u.column) \in pass'.received
              => (u.request_anim <=> Dist(u) # 0)]_vars

\* C4, amended: the tick handler requests another tick if and only if
\* progress was not at its bound before the tick (that is, if and only if
\* the tick moved progress); the tick that brings progress to the bound
\* still requests one more tick, and that one requests none.
C4_RequestsIffNotAtBoundBefore ==
  [][AnimFrame
       => \A t \in AllThumbnails : \A u \in AllThumbnails' :
            (Coord(u) = Coord(t) /\ ThumbId(t.row, t.column) \in pass'.received)
              => /\ u.request_anim <=> Dist(t) # 0
                 /\ ("anim_frame" \in RequestsOf(u)') <=> Dist(t) # 0]_vars

\* The tick that brought a selected thumbnail to 5 has left a request.
C4_Witness ==
  /\ pass.event.type = "AnimFrame"
  /\ \E t \in AllThumbnails :
       /\ ThumbId(t.row, t.column) \in pass.received
       /\ t.selected /\ t.selected_progress = MAX_PROGRESS /\ t.request_anim

\* C5 as stated: every delivered tick moves a Thumbnail that is d > 0 away
\* from its bound to d - 1, and once the distance is 0 (after the d-th
\* tick) no tick request is outstanding.
C5_ExactlyDTicksToStop ==
  [][AnimFrame
       => \A t \in AllThumbnails : \A u \in AllThumbnails' :
            (Coord(u) = Coord(t) /\ ThumbId(t.row, t.column) \in pass'.received)
              => /\ Dist(t) > 0 => Dist(u) = Dist(t) - 1
                 /\ Dist(u) = 0 => ~u.request_anim]_vars

\* C5, amended: a Thumbnail d > 0 away from its bound is d - 1 away after
\* one delivered tick and still has a tick request outstanding, also when
\* that tick was the d-th and reached the bound; a tick delivered at the
\* bound leaves progress there and requests nothing.  So progress reaches
\* the bound after exactly d ticks and the requests stop after d + 1.
C5_DTicksToBoundOneMoreToStop ==
  [][AnimFrame
       => \A t \in AllThumbnails : \A u \in AllThumbnails' :
            (Coord(u) = Coord(t) /\ ThumbId(t.row, t.column) \in pass'.received)
              => /\ u.selected = t.selected
                 /\ Dist(t) > 0 => (Dist(u) = Dist(t) - 1 /\ u.request_anim)
                 /\ Dist(t) = 0 => (Dist(u) = 0 /\ ~u.request_anim)]_vars

\* The fifth tick after the selection moved: the deselected thumbnail has
\* just come down to 0, the selected one up to 5, and both still have a tick
\* request outstanding.
C5_Witness ==
  /\ pass.event.type = "AnimFrame"
  /\ \E t \in AllThumbnails : \E u \in AllThumbnails :
       /\ ThumbId(t.row, t.column) \in pass.received
       /\ ThumbId(u.row, u.column) \in pass.received
       /\ ~t.selected /\ t.selected_progress = 0 /\ t.request_anim
       /\ u.selected /\ u.selected_progress = MAX_PROGRESS /\ u.request_anim

\* The widgets of a ContentSet's strip that a pass reached.
ThumbIds(cs) == {ThumbId(t.row, t.column) : t \in ThumbnailsOf(cs)}

\* C6: in the pass in which a node takes its completion event and replaces
\* its subtree, the event does not reach the new children (ContentSet rows,
\* Thumbnails); a completion event a node does not take, and a broadcast,
\* reach its children.
C6_ReplacedSubtreeSkipped ==
  [][/\ CompletionPass =>
          LET token == pass'.event.token
          IN IF token = children_promise
             THEN pass'.received = {RootId}
             ELSE \A i \in SetIndices :
                    /\ SetId(children[i].row) \in pass'.received
                    /\ IF token = children[i].children_promise
                       THEN ThumbIds(children'[i]) \cap pass'.received = {}
                       ELSE ThumbIds(children[i]) \subseteq pass'.received
     /\ (DeliverCommand /\ IsBroadcast(Head(commands))) =>
          \A i \in SetIndices :
            /\ SetId(children[i].row) \in pass'.received
            /\ ThumbIds(children[i]) \subseteq pass'.received]_vars

\* A ContentSet has just taken its completion event and built thumbnails
\* that the event did not reach, while the event reached the thumbnail of
\* the other row.
C6_Witness ==
  /\ pass.event.type = "PromiseResult"
  /\ \E i \in SetIndices : \E k \in SetIndices :
       /\ children[i].children_promise = pass.event.token
       /\ ThumbIds(children[i]) # {}
       /\ ThumbIds(children[i]) \cap pass.received = {}
       /\ ThumbIds(children[k]) # {}
       /\ ThumbIds(children[k]) \subseteq pass.received

\* A node whose computation has not delivered shows exactly its placeholder.
PlaceholderUntilResolved ==
  /\ (children_promise = EMPTY \/ children_promise \in RunningTokens)
       => children = RootPlaceholder
  /\ \A i \in SetIndices :
       (\/ children[i].children_promise = EMPTY
        \/ children[i].children_promise \in RunningTokens)
         => IsPlaceholder(children[i])

\* The rows of the root, without what is below them.
Rows(flex) ==
  [i \in 1..Len(flex) |->
     IF flex[i].kind = "ContentSet"
     THEN <<"ContentSet", flex[i].row, flex[i].data>>
     ELSE <<flex[i].kind, 0, 0>>]

\* C7: RootWidget and every ContentSet show exactly their placeholder until
\* the completion event carrying their slot's tag arrives; the subtree is
\* replaced only in the pass that delivers that event, once per computation,
\* and not again afterwards.
C7_ReplacedOnceOnCompletion ==
  [][/\ PlaceholderUntilResolved'
     /\ Rows(children') # Rows(children) =>
          /\ CompletionPass
          /\ children = RootPlaceholder
          /\ pass'.event.token = children_promise
          /\ children_promise \in RunningTokens
          /\ children_promise \notin RunningTokens'
     /\ Rows(children') = Rows(children) =>
          \A i \in SetIndices :
            children'[i].children # children[i].children =>
              \/ /\ CompletionPass
                 /\ IsPlaceholder(children[i])
                 /\ pass'.event.token = children[i].children_promise
                 /\ children[i].children_promise \in RunningTokens
                 /\ children[i].children_promise \notin RunningTokens'
              \/ /\ ~IsPlaceholder(children[i])
                 /\ Len(children'[i].children) = Len(children[i].children)
                 /\ ThumbIds(children'[i]) = ThumbIds(children[i])]_vars

\* The root and one row are resolved, the row shows a thumbnail, and the
\* other row still waits for its computation behind its placeholder.
C7_Witness ==
  /\ children_promise \notin RunningTokens \cup {EMPTY}
  /\ \E i \in SetIndices : \E k \in SetIndices :
       /\ ThumbIds(children[i]) # {}
       /\ children[k].children_promise \in RunningTokens
       /\ IsPlaceholder(children[k])

\* What RootWidget holds after a delivery of the list p: one fresh
\* ContentSet per record, in order.
RootHolds(flex, p) ==
  /\ Len(flex) = Len(p)
  /\ \A i \in 1..Len(flex) :
       /\ flex[i].kind = "ContentSet"
       /\ flex[i].row = i - 1
       /\ flex[i].data = p[i]
       /\ IsPlaceholder(flex[i])

\* What a ContentSet holds after a delivery of the list p: its title label
\* and one strip of fresh thumbnails, one per image, in order.
SetHolds(cs, p) ==
  /\ Len(cs.children) = 2
  /\ cs.children[1] = Label(cs.data.title)
  /\ cs.children[2].kind = "ClipBox"
  /\ Len(cs.children[2].child) = Len(p)
  /\ \A j \in 1..Len(p) :
       LET t == cs.children[2].child[j]
       IN /\ t.row = cs.row /\ t.column = j - 1 /\ t.inner = p[j]
          /\ ~t.selected /\ t.selected_progress = 0

\* C8: a second delivery of a matching completion event leaves the node
\* with the child list the first delivery gave it: N rows for RootWidget,
\* the title label and one strip of M thumbnails for a ContentSet.
C8_RedeliveryDoesNotAppend ==
  [][CompletionPass =>
       LET ev == pass'.event
       IN IF ev.taken
          THEN children' = children
          ELSE IF ev.token = children_promise
               THEN RootHolds(children', ev.payload)
               ELSE \A i \in SetIndices :
                      ev.token = children[i].children_promise
                        => SetHolds(children'[i], ev.payload)]_vars

\* RootWidget's completion event has been delivered a second time and was
\* taken; the root holds the two rows of the list.
C8_Witness ==
  /\ dups > 0
  /\ pass.event.type = "PromiseResult"
  /\ ~pass.event.taken
  /\ pass.event.token = children_promise
  /\ Len(pass.event.payload) >= 2
  /\ Len(children) = Len(pass.event.payload)

\* No two running computations belong to one node.
OneOutstanding ==
  \A c \in running : \A d \in running : c.owner = d.owner => c = d

WidgetAddedPass(p) == p.event = [type |-> "LifeCycle", event |-> "WidgetAdded"]

\* C9: no node has two outstanding computations; a slot is assigned only in
\* the WidgetAdded pass and only while it is empty, so a node launches
\* neither while Pending nor after Resolved.
C9_OneComputationPerNode ==
  [][/\ OneOutstanding'
     /\ children_promise' # children_promise =>
          children_promise = EMPTY /\ WidgetAddedPass(pass')
     /\ Rows(children') = Rows(children) =>
          \A i \in SetIndices :
            children'[i].children_promise # children[i].children_promise =>
              children[i].children_promise = EMPTY /\ WidgetAddedPass(pass')
     /\ (\E c \in running' : c \notin running) => WidgetAddedPass(pass')]_vars

\* Both rows have launched their computation and neither has delivered.
C9_Witness ==
  /\ Cardinality(running) = 2
  /\ \A c \in running : c.owner.kind = "ContentSet"
  /\ children_promise \notin RunningTokens \cup {EMPTY}

\* C10: a completion event whose tag is not a node's slot leaves the node
\* as it was (slot, row, data, child list, selected_item) and reaches the
\* node's children.
C10_ForeignCompletionPassesThrough ==
  [][CompletionPass =>
       LET token == pass'.event.token
       IN /\ token # children_promise =>
               /\ children_promise' = children_promise
               /\ selected_item' = selected_item
               /\ Rows(children') = Rows(children)
               /\ \A i \in SetIndices :
                    /\ SetId(children[i].row) \in pass'.received
                    /\ children'[i].children_promise
                         = children[i].children_promise
          /\ \A i \in SetIndices :
               (/\ token # children[i].children_promise
                /\ SetId(children[i].row) \in pass'.received)
                 => /\ children'[i] = children[i]
                    /\ ThumbIds(children[i]) \subseteq pass'.received]_vars

\* The completion event of one row has just passed through RootWidget and
\* through the other, resolved row and reached that row's thumbnail.
C10_Witness ==
  /\ pass.event.type = "PromiseResult"
  /\ pass.event.token # children_promise
  /\ \E i \in SetIndices :
       /\ children[i].children_promise # pass.event.token
       /\ children[i].children_promise \notin RunningTokens \cup {EMPTY}
       /\ ThumbIds(children[i]) # {}
       /\ ThumbIds(children[i]) \subseteq pass.received

\* C11: when RootWidget takes its completion event with a list of N records,
\* its container afterwards holds exactly N ContentSets in list order, the
\* i-th (0-based) with row = i and the i-th record as data, each showing its
\* placeholder (title label, spinner) with an empty slot; the root's own
\* spinner is gone.
C11_RootBuildsRowsInOrder ==
  [][(CompletionPass /\ pass'.event.token = children_promise) =>
       /\ RootHolds(children', pass'.event.payload)
       /\ \A i \in 1..Len(children') :
            /\ children'[i].children_promise = EMPTY
            /\ children'[i].children
                 = <<Label(pass'.event.payload[i].title), Spinner>>
            /\ children'[i].kind # "Spinner"]_vars

\* RootWidget has just taken a list of three records and holds three rows.
C11_Witness ==
  /\ pass.event.type = "PromiseResult"
  /\ pass.event.token = children_promise
  /\ Len(pass.event.payload) = 3
  /\ Len(children) = 3
  /\ children[3].row = 2

\* C12: when the ContentSet of row r takes its completion event with a list
\* of M images, its subtree afterwards is its title label followed by
\* exactly M Thumbnails in list order, the j-th (0-based) at (r, j) showing
\* the j-th image; the columns are exactly 0..M-1 and no spinner is left.
C12_SetBuildsThumbnailsInOrder ==
  [][(CompletionPass /\ pass'.event.token # children_promise) =>
       \A i \in SetIndices :
         pass'.event.token = children[i].children_promise =>
           LET cs == children'[i]
               M == Len(pass'.event.payload)
           IN /\ SetHolds(cs, pass'.event.payload)
              /\ cs.row = children[i].row /\ cs.row = i - 1
              /\ Cardinality(ThumbnailsOf(cs)) = M
              /\ {t.column : t \in ThumbnailsOf(cs)} = 0..(M - 1)
              /\ \A k \in 1..Len(cs.children) :
                   cs.children[k].kind # "Spinner"]_vars

\* The ContentSet of row 1 has just taken a list of three images and shows
\* three thumbnails.
C12_Witness ==
  /\ pass.event.type = "PromiseResult"
  /\ Len(pass.event.payload) = 3
  /\ \E i \in SetIndices :
       /\ children[i].row = 1
       /\ children[i].children_promise = pass.event.token
       /\ Cardinality(ThumbnailsOf(children[i])) = 3

\* C13: coordinate updates saturate at zero: Up at row 0 leaves the row at
\* 0, Left at column 0 leaves the column at 0, so Up or Left at (0,0)
\* leaves selected_item at (0,0); no coordinate is ever negative.
C13_SaturatesAtZero ==
  [][/\ selected_item'[1] \in Nat /\ selected_item'[2] \in Nat
     /\ (KeyPass("ArrowUp") /\ selected_item[1] = 0)
          => selected_item' = selected_item
     /\ (KeyPass("ArrowLeft") /\ selected_item[2] = 0)
          => selected_item' = selected_item]_vars

\* Up has just been pressed at (0,0): the broadcast submitted before the
\* key and the one submitted by it both carry (0,0).
C13_Witness ==
  /\ pass.event.type = "KeyDown" /\ pass.event.key = "ArrowUp"
  /\ selected_item = <<0, 0>>
  /\ Len(commands) = 2
  /\ IsBroadcast(commands[1]) /\ commands[1].payload = <<0, 0>>
  /\ IsBroadcast(commands[2]) /\ commands[2].payload = <<0, 0>>

\* C14: each directional key changes exactly one axis of selected_item and
\* leaves the other: Down is row + 1, Up is row - 1 (floor 0), Right is
\* column + 1, Left is column - 1 (floor 0), whatever the size of the
\* populated grid; from (0,0), Right, Right, Left gives (0,1).
C14_OneAxisPerKey ==
  [][LET r == selected_item[1]
         c == selected_item[2]
     IN /\ KeyPass("ArrowDown") => selected_item' = <<r + 1, c>>
        /\ KeyPass("ArrowUp") =>
             selected_item' = <<IF r = 0 THEN 0 ELSE r - 1, c>>
        /\ KeyPass("ArrowRight") => selected_item' = <<r, c + 1>>
        /\ KeyPass("ArrowLeft") =>
             selected_item' = <<r, IF c = 0 THEN 0 ELSE c - 1>>
        /\ KeyPass("Other") => selected_item' = selected_item
        /\ selected_item' # selected_item => pass'.event.type = "KeyDown"
        /\ MoveSelection(MoveSelection(MoveSelection(<<0, 0>>, "ArrowRight"),
                                      "ArrowRight"), "ArrowLeft") = <<0, 1>>]_vars

\* Left has just been pressed at (0,2), beyond the (still empty) grid, and
\* the coordinate is (0,1): the two pending broadcasts carry (0,2), (0,1).
C14_Witness ==
  /\ pass.event.type = "KeyDown" /\ pass.event.key = "ArrowLeft"
  /\ selected_item = <<0, 1>>
  /\ Len(commands) = 2
  /\ commands[1].payload = <<0, 2>>
  /\ commands[2].payload = <<0, 1>>
  /\ AllThumbnails = {}

\* C15: in every reachable state every Thumbnail's selected_progress lies
\* in 0..5; no sequence of ticks and selection changes takes it above 5 or
\* below 0.
C15_ProgressInRange ==
  \A t \in AllThumbnails : t.selected_progress \in 0..MAX_PROGRESS

\* A tick has just been delivered to a selected thumbnail at 5 and to a
\* deselected one at 0; both stayed where they were and ask for no more.
C15_Witness ==
  /\ pass.event.type = "AnimFrame"
  /\ \E t \in AllThumbnails : \E u \in AllThumbnails :
       /\ ThumbId(t.row, t.column) \in pass.received
       /\ ThumbId(u.row, u.column) \in pass.received
       /\ ~t.selected /\ t.selected_progress = 0 /\ ~t.request_anim
       /\ u.selected /\ u.selected_progress = MAX_PROGRESS /\ ~u.request_anim

\* C16: in every step of a Thumbnail, progress does not decrease if the
\* thumbnail is selected when the step is taken and does not increase if it
\* is not; it moves by at most 1, only in a tick delivered to the
\* thumbnail, and every other event leaves it unchanged.
C16_ProgressFollowsSelected ==
  [][\A t \in AllThumbnails : \A u \in AllThumbnails' :
       Coord(u) = Coord(t) =>
         /\ t.selected => u.selected_progress \in
                            {t.selected_progress, t.selected_progress + 1}
         /\ ~t.selected => u.selected_progress \in
                             {t.selected_progress, t.selected_progress - 1}
         /\ u.selected_progress # t.selected_progress =>
              /\ pass'.event.type = "AnimFrame"
              /\ ThumbId(t.row, t.column) \in pass'.received
              /\ u.selected = t.selected]_vars

\* A tick has just moved a selected thumbnail up and a deselected one down,
\* both still short of their bounds.
C16_Witness ==
  /\ pass.event.type = "AnimFrame"
  /\ \E t \in AllThumbnails : \E u \in AllThumbnails :
       /\ ThumbId(t.row, t.column) \in pass.received
       /\ ThumbId(u.row, u.column) \in pass.received
       /\ ~t.selected /\ t.selected_progress \in 1..(MAX_PROGRESS - 1)
       /\ u.selected /\ u.selected_progress \in 1..(MAX_PROGRESS - 1)

\* The step delivers a selection-changed broadcast.
BroadcastPass ==
  /\ pass'.event.type = "Command"
  /\ pass'.event.selector = "CHANGE_SELECTED_ITEM"

\* Every Thumbnail is at the bound of its selected flag and none has a tick
\* request outstanding.
AnimationSettled ==
  \A t \in AllThumbnails : Dist(t) = 0 /\ ~t.request_anim

\* C17: the animation ends by itself: if from some point on no selection
\* change is delivered and every requested tick is delivered, then from
\* some point on every Thumbnail is at the bound of its selected flag (5 if
\* selected, 0 otherwise) and no Thumbnail has a tick request outstanding.
C17_AnimationTerminates ==
  (<>[][~BroadcastPass]_vars) => <>[]AnimationSettled

\* The selection has moved between two thumbnails, no broadcast is pending
\* and the ticks have run out: one thumbnail rests at 5, the other at 0.
C17_Witness ==
  /\ pass.event.type = "AnimFrame"
  /\ ~BroadcastPending
  /\ AnimationSettled
  /\ \E t \in AllThumbnails : \E u \in AllThumbnails :
       /\ t.selected /\ ~u.selected
       /\ ThumbId(u.row, u.column) \in pass.received

\* The thumbnails of the tree sit at the coordinate of their place: row of
\* their ContentSet, column of their position in the strip.
CoordinatesFixed ==
  \A i \in SetIndices : \A k \in 1..Len(children[i].children) :
    children[i].children[k].kind = "ClipBox" =>
      \A j \in 1..Len(children[i].children[k].child) :
        Coord(children[i].children[k].child[j]) = <<i - 1, j - 1>>

\* C18: a Thumbnail is unselected when it is created, and its selected
\* flag changes only in a pass that delivers a selection-changed broadcast
\* to it (it becomes selected only if the broadcast carries its own
\* coordinate); ticks, keys, completion events and lifecycle notifications
\* leave the flag alone, and its (row, column) never changes.  So a new
\* Thumbnail at selected_item stays unselected until such a broadcast.
C18_SelectedOnlyByBroadcast ==
  [][/\ CoordinatesFixed'
     /\ {Coord(t) : t \in AllThumbnails} \subseteq
          {Coord(u) : u \in AllThumbnails'}
     /\ \A u \in AllThumbnails' :
          IF \E t \in AllThumbnails : Coord(t) = Coord(u)
          THEN \A t \in AllThumbnails :
                 (Coord(t) = Coord(u) /\ u.selected # t.selected) =>
                   /\ BroadcastPass
                   /\ ThumbId(u.row, u.column) \in pass'.received
                   /\ u.selected <=> pass'.event.payload = Coord(u)
          ELSE ~u.selected /\ u.selected_progress = 0]_vars

\* Row 1 has just been built while selected_item is (1,0) and no broadcast
\* is pending: its thumbnail (1,0) is not selected.
C18_Witness ==
  /\ pass.event.type = "PromiseResult"
  /\ ~BroadcastPending
  /\ selected_item = <<1, 0>>
  /\ \E i \in SetIndices :
       /\ children[i].children_promise = pass.event.token
       /\ \E t \in ThumbnailsOf(children[i]) :
            Coord(t) = selected_item /\ ~t.selected

\* The step is RootWidget's BuildFocusChain lifecycle pass.
BuildFocusChainPass ==
  pass'.event = [type |-> "LifeCycle", event |-> "BuildFocusChain"]

\* The step delivers a REQUEST_FOCUS command.
RequestFocusPass ==
  /\ pass'.event.type = "Command"
  /\ pass'.event.selector = "REQUEST_FOCUS"

\* C19: RootWidget requests input focus once over the life of the tree and
\* never inside the BuildFocusChain handler: that handler only registers
\* for focus and submits one REQUEST_FOCUS command addressed to the root's
\* own widget, and focus is requested only in the later pass that delivers
\* that command.
C19_FocusRequestedOnceLater ==
  [][/\ focus_requests' <= 1
     /\ BuildFocusChainPass =>
          /\ focus_requests' = focus_requests
          /\ commands' = Append(commands,
                                [selector |-> "REQUEST_FOCUS",
                                 payload |-> <<>>, target |-> "Widget"])
          /\ pass'.requests =
               Requests(RootId, {"register_for_focus", "submit_command"})
     /\ RequestFocusPass =>
          /\ focus_requests' = focus_requests + 1
          /\ pass'.event.target = "Widget"
          /\ pass'.received = {RootId}
          /\ [node |-> RootId, request |-> "request_focus"] \in pass'.requests
     /\ focus_requests' # focus_requests => RequestFocusPass
     /\ (\E q \in pass'.requests : q.request = "request_focus")
          => RequestFocusPass]_vars

\* The REQUEST_FOCUS command has been handled, focus was requested once,
\* and a later key event has reached RootWidget.
C19_Witness ==
  /\ focus_chain_built
  /\ focus_requests = 1
  /\ pass.event.type = "KeyDown"
  /\ \A k \in 1..Len(commands) : ~IsRequestFocus(commands[k])

\* RootWidget and every ContentSet have been added, have launched their
\* computation and have taken its result: no placeholder is shown.
AllResolved ==
  /\ root_added
  /\ children_promise \notin RunningTokens \cup {EMPTY}
  /\ \A i \in 1..Len(children) :
       /\ children[i].kind = "ContentSet"
       /\ children[i].added
       /\ children[i].children_promise \notin RunningTokens \cup {EMPTY}
       /\ ~IsPlaceholder(children[i])
       /\ \A k \in 1..Len(children[i].children) :
            children[i].children[k].kind # "Spinner"

\* The completion pass of a computation replaces the subtree of the node
\* that launched it and of no other node; rows created in the pass have
\* not been told yet that they were added.
ResolvesOwnerOnly ==
  LET token == pass'.event.token
      c == CHOOSE c \in running : c.token = token
  IN /\ \E d \in running : d.token = token
     /\ IF c.owner = RootId
        THEN /\ token = children_promise
             /\ children = RootPlaceholder
             /\ \A i \in 1..Len(children') :
                  ~children'[i].added /\ children'[i].children_promise = EMPTY
        ELSE /\ token # children_promise
             /\ Rows(children') = Rows(children)
             /\ \A i \in SetIndices :
                  IF SetId(children[i].row) = c.owner
                  THEN /\ token = children[i].children_promise
                       /\ IsPlaceholder(children[i])
                       /\ ~IsPlaceholder(children'[i])
                  ELSE children'[i] = children[i]

\* C20: if every widget that joins the tree is told so and every launched
\* computation delivers its completion event, then RootWidget is resolved,
\* every ContentSet it created receives WidgetAdded in a later pass,
\* launches its computation and is resolved, and in the end no node shows a
\* placeholder; a computation resolves the node that launched it and no
\* other.
C20_EveryNodeResolves ==
  /\ [][CompletionPass => ResolvesOwnerOnly]_vars
  /\ <>[]AllResolved

\* Three rows have been created and each has taken its own list and shows
\* at least one thumbnail.
C20_Witness ==
  /\ AllResolved
  /\ Len(children) = 3
  /\ \A i \in 1..Len(children) : ThumbIds(children[i]) # {}
  /\ running = {}

\* The broadcasts submitted and not yet delivered, oldest first.
PendingBroadcasts == SelectSeq(commands, IsBroadcast)

\* C21: whenever no selection-changed command is pending, every selected
\* Thumbnail sits at selected_item, also after several key events were
\* handled before their commands were delivered: each command carries the
\* coordinate of its own key event (so the newest pending one carries
\* selected_item) and commands are delivered in submission order.
C21_SelectedAtSelectedItemWhenQuiet ==
  /\ ~BroadcastPending =>
       \A t \in SelectedThumbnails : Coord(t) = selected_item
  /\ BroadcastPending =>
       PendingBroadcasts[Len(PendingBroadcasts)].payload = selected_item

\* Down and Up were handled and then both broadcasts delivered with no
\* frame in between: thumbnail (0,0) is selected, thumbnail (1,0) was
\* selected and deselected at progress 0, and nothing is pending.
C21_Witness ==
  /\ pass.event.type = "Command"
  /\ commands = <<>>
  /\ selected_item = <<0, 0>>
  /\ \E t \in AllThumbnails : \E u \in AllThumbnails :
       /\ Coord(t) = <<0, 0>> /\ t.selected /\ t.selected_progress = 0
       /\ Coord(u) = <<1, 0>> /\ ~u.selected /\ u.selected_progress = 0
       /\ u.request_anim

\* C22: in every state between passes, a Thumbnail whose progress is not at
\* the bound of its selected flag (below 5 while selected, above 0 while
\* not) has an animation tick request outstanding.
C22_UnfinishedAnimationHasRequest ==
  \A t \in AllThumbnails : Dist(t) # 0 => t.request_anim

\* A thumbnail has just been deselected in the middle of its animation and
\* has a tick request outstanding, and so has the newly selected one.
C22_Witness ==
  /\ pass.event.type = "Command"
  /\ \E t \in AllThumbnails : \E u \in AllThumbnails :
       /\ ThumbId(t.row, t.column) \in pass.received
       /\ ~t.selected /\ t.selected_progress \in 1..(MAX_PROGRESS - 1)
       /\ t.request_anim
       /\ u.selected /\ u.selected_progress < MAX_PROGRESS /\ u.request_anim

\* C23: a key-down event for a key that is not an arrow key leaves
\* selected_item unchanged and still submits a selection-changed broadcast
\* carrying the current selected_item; every key-down event RootWidget
\* handles submits exactly one broadcast (and nothing else submits one).
C23_EveryKeySubmitsOneBroadcast ==
  [][/\ pass'.event.type = "KeyDown" =>
          /\ RootId \in pass'.received
          /\ commands' =
               Append(commands, [selector |-> "CHANGE_SELECTED_ITEM",
                                 payload |-> selected_item',
                                 target |-> "Window"])
          /\ [node |-> RootId, request |-> "submit_command"]
               \in pass'.requests
     /\ KeyPass("Other") => selected_item' = selected_item
     /\ Len(PendingBroadcasts') > Len(PendingBroadcasts) =>
          pass'.event.type = "KeyDown"]_vars

\* A non-arrow key has just been pressed at (1,0): the broadcast of the
\* earlier Down and the one of this key are pending, both carrying (1,0).
C23_Witness ==
  /\ pass.event.type = "KeyDown" /\ pass.event.key = "Other"
  /\ selected_item = <<1, 0>>
  /\ Len(commands) = 2
  /\ IsBroadcast(commands[1]) /\ commands[1].payload = <<1, 0>>
  /\ IsBroadcast(commands[2]) /\ commands[2].payload = <<1, 0>>

====
